---- MODULE Spec2Model ----
(***************************************************************************)
(* script_gen.py: history loader, tool-name selector, content generator    *)
(* and manifest writer.  Text is modelled as a sequence of one-character   *)
(* strings, so that lower(), strip(), the CSV dialect and the JSON string  *)
(* escapes are computed character by character.                            *)
(***************************************************************************)
EXTENDS Integers, Sequences, FiniteSets, TLC

VARIABLES
    history,    \* outputs/history.csv: Absent, or the text of the file
    manifests,  \* manifests/*.json: file stem -> content of the file
    now,        \* the UTC clock, in ticks
    runs,       \* one record per finished invocation of the script
    call        \* inputs and result of the function under study

vars == <<history, manifests, now, runs, call>>

----------------------------------------------------------------------------
(* Bounds of the model *)

MaxRuns == 2          \* invocations of the script in one behaviour
MaxTime == 2          \* last tick of the clock; the clock ticks twice a second

----------------------------------------------------------------------------
(* Text *)

UpperCase == <<"A","B","C","D","E","F","G","H","I","J","K","L","M",
               "N","O","P","Q","R","S","T","U","V","W","X","Y","Z">>
LowerCase == <<"a","b","c","d","e","f","g","h","i","j","k","l","m",
               "n","o","p","q","r","s","t","u","v","w","x","y","z">>

Whitespace == {" ", "\t", "\n", "\r"}

\* str.lower() on one character
LowerTable ==
    [c \in {UpperCase[i] : i \in 1..Len(UpperCase)} |->
        LowerCase[CHOOSE i \in 1..Len(UpperCase) : UpperCase[i] = c]]

LowerChar(c) == IF c \in DOMAIN LowerTable THEN LowerTable[c] ELSE c

\* str.lower()
Lower(s) == [i \in 1..Len(s) |-> LowerChar(s[i])]

\* str.strip(): drop the leading and the trailing whitespace
RECURSIVE LStrip(_)
LStrip(s) ==
    IF s # <<>> /\ Head(s) \in Whitespace THEN LStrip(Tail(s)) ELSE s

RECURSIVE RStrip(_)
RStrip(s) ==
    IF s # <<>> /\ s[Len(s)] \in Whitespace
    THEN RStrip(SubSeq(s, 1, Len(s) - 1))
    ELSE s

Strip(s) == RStrip(LStrip(s))

----------------------------------------------------------------------------
(* Python values that reach a truth test or a method call *)

None == [type |-> "NoneType", str |-> <<>>, int |-> 0]
PyStr(s) == [type |-> "str", str |-> s, int |-> 0]
PyInt(n) == [type |-> "int", str |-> <<>>, int |-> n]

\* bool(v)
Truthy(v) ==
    CASE v.type = "NoneType" -> FALSE
      [] v.type = "str" -> v.str # <<>>
      [] v.type = "int" -> v.int # 0

----------------------------------------------------------------------------
(* Environment *)

\* GEMINI_API_KEY = os.environ.get("GEMINI_API_KEY", "").strip()
GEMINI_API_KEY(env) == Strip(env)

----------------------------------------------------------------------------
(* Remote generation.  An outcome is what requests.post() does: it raises, *)
(* or it returns a response with a status code and a body.                 *)

Outcome(raises, status_code, json_ok, has_path, text) ==
    [raises |-> raises, status_code |-> status_code, json_ok |-> json_ok,
     has_path |-> has_path, text |-> text]

NoOutcome == Outcome(FALSE, 0, FALSE, FALSE, None)

\* variant: the status code of the response is not looked at
gemini_generate_any_status(key, outcome) ==
    IF key = <<>> THEN None
    ELSE IF outcome.raises THEN None
    ELSE IF ~outcome.json_ok THEN None
    ELSE IF ~outcome.has_path THEN None
    ELSE outcome.text

\* gemini_generate(prompt): value returned
gemini_generate(key, outcome) ==
    IF key = <<>> THEN None
    ELSE IF outcome.raises THEN None              \* except: return None
    ELSE IF outcome.status_code # 200 THEN None
    ELSE IF ~outcome.json_ok THEN None            \* r.json() raises
    ELSE IF ~outcome.has_path THEN None           \* KeyError / IndexError
    ELSE outcome.text

\* gemini_generate(prompt): number of HTTP requests sent
gemini_posts(key) == IF key = <<>> THEN 0 ELSE 1

----------------------------------------------------------------------------
(* Tool name selector *)

fallback == <<
    <<"C","l","i","p","F","i","x">>,
    <<"A","u","t","o","C","u","t"," ","P","r","o">>,
    <<"R","e","n","d","e","r","P","i","l","o","t">>,
    <<"S","n","a","p","E","d","i","t","o","r"," ","A","I">>,
    <<"M","a","g","i","c","T","r","i","m"," ","A","I">>,
    <<"C","l","e","a","n","C","a","p","t","i","o","n","e","r">>,
    <<"R","e","f","r","a","m","e","X">>,
    <<"C","o","l","o","r","L","i","f","t"," ","A","I">> >>

SuffixNew == <<"_","N","E","W">>

\* result of a call: a returned value, or an exception that escapes
Return(value, step, posts) ==
    [raised |-> FALSE, value |-> value, step |-> step, posts |-> posts]
Raise(step, posts) ==
    [raised |-> TRUE, value |-> <<>>, step |-> step, posts |-> posts]

\* variant: the candidate is looked up in the used-set as it is spelled
RECURSIVE ScanFallback_cased(_, _)
ScanFallback_cased(i, used_tools) ==
    IF i > Len(fallback) THEN 0
    ELSE IF fallback[i] \notin used_tools THEN i
    ELSE ScanFallback_cased(i + 1, used_tools)

\* for t in fallback: if t.lower() not in used_tools: return t
\* (index of the candidate returned, 0 when the loop falls through)
RECURSIVE ScanFallback(_, _)
ScanFallback(i, used_tools) ==
    IF i > Len(fallback) THEN 0
    ELSE IF Lower(fallback[i]) \notin used_tools THEN i
    ELSE ScanFallback(i + 1, used_tools)

\* if GEMINI_API_KEY: resp = gemini_generate(...); if resp: return resp.strip()
\* return previous_tool + "_NEW"
AskGemini(previous_tool, key, outcome) ==
    IF key # <<>>
    THEN LET resp == gemini_generate(key, outcome) IN
         IF Truthy(resp)
         THEN IF resp.type = "str"
              THEN Return(Strip(resp.str), 3, gemini_posts(key))
              ELSE Raise(3, gemini_posts(key))   \* AttributeError: no strip()
         ELSE Return(previous_tool \o SuffixNew, 4, gemini_posts(key))
    ELSE Return(previous_tool \o SuffixNew, 4, 0)

\* variant: the name passed through is the normalised one
pick_new_tool_lowered(previous_tool, used_tools, key, outcome) ==
    IF Lower(previous_tool) \notin used_tools
    THEN Return(Lower(previous_tool), 1, 0)
    ELSE LET i == ScanFallback(1, used_tools) IN
         IF i # 0 THEN Return(fallback[i], 2, 0)
         ELSE AskGemini(previous_tool, key, outcome)

pick_new_tool(previous_tool, used_tools, key, outcome) ==
    IF Lower(previous_tool) \notin used_tools
    THEN Return(previous_tool, 1, 0)
    ELSE LET i == ScanFallback(1, used_tools) IN
         IF i # 0 THEN Return(fallback[i], 2, 0)
         ELSE AskGemini(previous_tool, key, outcome)

----------------------------------------------------------------------------
(* The history log: csv.writer and csv.DictReader, default dialect *)

Absent == [exists |-> FALSE, text |-> <<>>]
File(text) == [exists |-> TRUE, text |-> text]

HEADER == << <<"j","o","b","_","i","d">>,
             <<"t","o","o","l","_","n","a","m","e">>,
             <<"m","a","n","i","f","e","s","t","_","p","a","t","h">>,
             <<"c","r","e","a","t","e","d","_","a","t">> >>

TOOL_NAME == HEADER[2]

\* QUOTE_MINIMAL: a field is quoted when it holds the delimiter, the quote
\* character or a character of the line terminator
CsvSpecial == {",", "\"", "\r", "\n"}

RECURSIVE CsvDouble(_)
CsvDouble(f) ==
    IF f = <<>> THEN <<>>
    ELSE IF Head(f) = "\"" THEN <<"\"", "\"">> \o CsvDouble(Tail(f))
    ELSE <<Head(f)>> \o CsvDouble(Tail(f))

CsvField(f) ==
    IF \E i \in 1..Len(f) : f[i] \in CsvSpecial
    THEN <<"\"">> \o CsvDouble(f) \o <<"\"">>
    ELSE f

RECURSIVE CsvJoin(_)
CsvJoin(fields) ==
    IF fields = <<>> THEN <<>>
    ELSE IF Len(fields) = 1 THEN CsvField(fields[1])
    ELSE CsvField(Head(fields)) \o <<",">> \o CsvJoin(Tail(fields))

\* csv.writer(fh).writerow(fields), fh opened with newline=""
writerow(fields) ==
    (IF fields = << <<>> >> THEN <<"\"", "\"">> ELSE CsvJoin(fields))
        \o <<"\r", "\n">>

\* open(HISTORY, "r"): universal newlines, "\r\n" and "\r" are read as "\n"
TranslateNewlines(text) ==
    SelectSeq([i \in 1..Len(text) |->
                 IF text[i] # "\r" THEN text[i]
                 ELSE IF i < Len(text) /\ text[i + 1] = "\n" THEN "\r\n"
                 ELSE "\n"],
              LAMBDA c : c # "\r\n")

\* for line in file: the lines of a text from position i on, each with its
\* "\n" if it has one
RECURSIVE LinesFrom(_, _)
LinesFrom(text, i) ==
    IF i > Len(text) THEN <<>>
    ELSE LET ends == {j \in i..Len(text) : text[j] = "\n"} IN
         IF ends = {} THEN <<SubSeq(text, i, Len(text))>>
         ELSE \* the first of them
              LET e == CHOOSE j \in ends : \A l \in ends : j <= l IN
              <<SubSeq(text, i, e)>> \o LinesFrom(text, e + 1)

Lines(text) == LinesFrom(text, 1)

\* csv.reader on one line: the parser's state machine from character i on;
\* field and row are the field and the record being collected.  The result
\* is in state START_RECORD when the line completes the record.
RECURSIVE CsvLine(_, _, _, _, _)
CsvLine(line, i, state, field, row) ==
    IF i > Len(line) THEN [state |-> state, field |-> field, row |-> row]
    ELSE LET c == line[i] IN
      CASE state \in {"START_RECORD", "START_FIELD"} ->
             IF c = "\n"
             THEN [state |-> "START_RECORD", field |-> <<>>,
                   row |-> IF state = "START_RECORD" THEN <<>>
                           ELSE Append(row, <<>>)]
             ELSE IF c = "\""
             THEN CsvLine(line, i + 1, "IN_QUOTED_FIELD", <<>>, row)
             ELSE IF c = ","
             THEN CsvLine(line, i + 1, "START_FIELD", <<>>, Append(row, <<>>))
             ELSE CsvLine(line, i + 1, "IN_FIELD", <<c>>, row)
        [] state = "IN_FIELD" ->
             IF c = "\n"
             THEN [state |-> "START_RECORD", field |-> <<>>,
                   row |-> Append(row, field)]
             ELSE IF c = ","
             THEN CsvLine(line, i + 1, "START_FIELD", <<>>, Append(row, field))
             ELSE CsvLine(line, i + 1, "IN_FIELD", Append(field, c), row)
        [] state = "IN_QUOTED_FIELD" ->
             IF c = "\""
             THEN CsvLine(line, i + 1, "QUOTE_IN_QUOTED_FIELD", field, row)
             ELSE CsvLine(line, i + 1, "IN_QUOTED_FIELD", Append(field, c), row)
        [] state = "QUOTE_IN_QUOTED_FIELD" ->
             IF c = "\""
             THEN CsvLine(line, i + 1, "IN_QUOTED_FIELD", Append(field, c), row)
             ELSE IF c = ","
             THEN CsvLine(line, i + 1, "START_FIELD", <<>>, Append(row, field))
             ELSE IF c = "\n"
             THEN [state |-> "START_RECORD", field |-> <<>>,
                   row |-> Append(row, field)]
             ELSE CsvLine(line, i + 1, "IN_FIELD", Append(field, c), row)

\* csv.reader over the lines: a record ends with its line unless a quoted
\* field is open; the end of the input closes the record being collected
RECURSIVE CsvRead(_, _, _, _, _, _)
CsvRead(lines, k, state, field, row, rows) ==
    IF k > Len(lines)
    THEN IF state = "START_RECORD" THEN rows
         ELSE Append(rows, Append(row, field))
    ELSE LET r == CsvLine(lines[k], 1, state, field, row) IN
         IF r.state = "START_RECORD"
         THEN CsvRead(lines, k + 1, "START_RECORD", <<>>, <<>>,
                      Append(rows, r.row))
         ELSE CsvRead(lines, k + 1, r.state, r.field, r.row, rows)

\* the records of a file read in text mode; DictReader skips the empty ones
CsvRows(text) ==
    SelectSeq(CsvRead(Lines(TranslateNewlines(text)), 1, "START_RECORD",
                      <<>>, <<>>, <<>>),
              LAMBDA r : r # <<>>)

\* csv.DictReader: row[key] under the field names of the first record; a
\* short row has None for the fields it lacks
DictGet(fieldnames, row, key) ==
    LET cols == {j \in 1..Len(fieldnames) : fieldnames[j] = key} IN
    IF cols = {} THEN None
    ELSE LET j == CHOOSE k \in cols : \A l \in cols : l <= k IN
         IF j <= Len(row) THEN PyStr(row[j]) ELSE None

DictHas(fieldnames, key) == \E j \in 1..Len(fieldnames) : fieldnames[j] = key

\* for row in csv.DictReader(...):
\*     if "tool_name" in row and row["tool_name"]:
\*         used.add(row["tool_name"].strip().lower())
RECURSIVE HistoryTools(_, _, _, _)
HistoryTools(fieldnames, rows, i, used) ==
    IF i > Len(rows) THEN used
    ELSE LET v == DictGet(fieldnames, rows[i], TOOL_NAME) IN
         IF DictHas(fieldnames, TOOL_NAME) /\ Truthy(v)
         THEN HistoryTools(fieldnames, rows, i + 1,
                           used \cup {Lower(Strip(v.str))})
         ELSE HistoryTools(fieldnames, rows, i + 1, used)

HistoryUsed(h) ==
    IF ~h.exists THEN {}
    ELSE LET rows == CsvRows(h.text) IN
         IF rows = <<>> THEN {}
         ELSE HistoryTools(rows[1], rows, 2, {})

----------------------------------------------------------------------------
(* Manifest files: json.dumps(..., ensure_ascii=False) and json.load *)

\* a JSON string literal: quotes, and the escapes of the quote, the
\* backslash and the control characters
RECURSIVE JsonEscape(_)
JsonEscape(s) ==
    IF s = <<>> THEN <<>>
    ELSE (CASE Head(s) = "\"" -> <<"\\", "\"">>
            [] Head(s) = "\\" -> <<"\\", "\\">>
            [] Head(s) = "\n" -> <<"\\", "n">>
            [] Head(s) = "\r" -> <<"\\", "r">>
            [] Head(s) = "\t" -> <<"\\", "t">>
            [] OTHER -> <<Head(s)>>) \o JsonEscape(Tail(s))

JsonString(s) == <<"\"">> \o JsonEscape(s) \o <<"\"">>

\* the scanner of a string literal, from the character after the opening
\* quote: ok is FALSE where json.load raises JSONDecodeError
RECURSIVE JsonScan(_, _, _)
JsonScan(tok, i, acc) ==
    IF i > Len(tok) THEN [ok |-> FALSE, str |-> acc]   \* unterminated
    ELSE IF tok[i] = "\"" THEN [ok |-> i = Len(tok), str |-> acc]
    ELSE IF tok[i] \in {"\n", "\r", "\t"}
    THEN [ok |-> FALSE, str |-> acc]                   \* control character
    ELSE IF tok[i] = "\\"
    THEN IF i = Len(tok) THEN [ok |-> FALSE, str |-> acc]
         ELSE CASE tok[i + 1] = "\"" -> JsonScan(tok, i + 2, Append(acc, "\""))
                [] tok[i + 1] = "\\" -> JsonScan(tok, i + 2, Append(acc, "\\"))
                [] tok[i + 1] = "n" -> JsonScan(tok, i + 2, Append(acc, "\n"))
                [] tok[i + 1] = "r" -> JsonScan(tok, i + 2, Append(acc, "\r"))
                [] tok[i + 1] = "t" -> JsonScan(tok, i + 2, Append(acc, "\t"))
                [] OTHER -> [ok |-> FALSE, str |-> acc]
    ELSE JsonScan(tok, i + 1, Append(acc, tok[i]))

JsonDecodeString(tok) ==
    IF tok = <<>> \/ Head(tok) # "\"" THEN [ok |-> FALSE, str |-> <<>>]
    ELSE JsonScan(tok, 2, <<>>)

\* the value of a member as written in the file
JString(tok) == [type |-> "string", token |-> tok, num |-> 0]
JNumber(n) == [type |-> "number", token |-> <<>>, num |-> n]
JNull == [type |-> "null", token |-> <<>>, num |-> 0]

\* the text of a manifest file: whether it is well-formed JSON, the type of
\* the top-level value, and the members of a top-level object
NoScript == [lang_en |-> [body |-> <<>>, title |-> <<>>],
             lang_te |-> [body |-> <<>>, title |-> <<>>]]
NoAssets == [demo_audio_en |-> <<>>, demo_audio_te |-> <<>>,
             demo_video |-> <<>>]

JsonFile(syntax_ok, top, has_tool_name, tool_name) ==
    [syntax_ok |-> syntax_ok, top |-> top,
     has_tool_name |-> has_tool_name, tool_name |-> tool_name,
     job_id |-> <<>>, created_at |-> <<>>, script |-> NoScript,
     tags |-> <<>>, description |-> <<>>, assets |-> NoAssets]

\* json.dumps(m, indent=2, ensure_ascii=False)
json_dumps(m) ==
    [syntax_ok |-> TRUE, top |-> "object",
     has_tool_name |-> TRUE, tool_name |-> JString(JsonString(m.tool_name)),
     job_id |-> JsonString(m.job_id),
     created_at |-> JsonString(m.created_at),
     script |->
        [lang_en |-> [body |-> JsonString(m.script.lang_en.body),
                      title |-> JsonString(m.script.lang_en.title)],
         lang_te |-> [body |-> JsonString(m.script.lang_te.body),
                      title |-> JsonString(m.script.lang_te.title)]],
     tags |-> [i \in 1..Len(m.tags) |-> JsonString(m.tags[i])],
     description |-> JsonString(m.description),
     assets |-> [demo_audio_en |-> JsonString(m.assets.demo_audio_en),
                 demo_audio_te |-> JsonString(m.assets.demo_audio_te),
                 demo_video |-> JsonString(m.assets.demo_video)]]

----------------------------------------------------------------------------
(* History loader *)

\* variant: the manifest name is trimmed like a name of the history log
ReadManifest_stripped(f) ==
    IF ~f.syntax_ok THEN [error |-> "JSONDecodeError", tools |-> {}]
    ELSE IF f.top # "object" THEN [error |-> "AttributeError", tools |-> {}]
    ELSE IF ~f.has_tool_name \/ f.tool_name.type = "null"
    THEN [error |-> "", tools |-> {}]
    ELSE IF f.tool_name.type = "number"
    THEN [error |-> IF f.tool_name.num # 0 THEN "AttributeError" ELSE "",
          tools |-> {}]
    ELSE LET d == JsonDecodeString(f.tool_name.token) IN
         IF ~d.ok THEN [error |-> "JSONDecodeError", tools |-> {}]
         ELSE IF d.str = <<>> THEN [error |-> "", tools |-> {}]
         ELSE [error |-> "", tools |-> {Lower(Strip(d.str))}]

\* the body of the try block for one manifest file: the exception it ends
\* with ("" for none) and the names it adds
\*     data = json.load(open(mf)); t = data.get("tool_name")
\*     if t: used.add(t.lower())
ReadManifest(f) ==
    IF ~f.syntax_ok THEN [error |-> "JSONDecodeError", tools |-> {}]
    ELSE IF f.top # "object" THEN [error |-> "AttributeError", tools |-> {}]
    ELSE IF ~f.has_tool_name \/ f.tool_name.type = "null"
    THEN [error |-> "", tools |-> {}]
    ELSE IF f.tool_name.type = "number"
    THEN [error |-> IF f.tool_name.num # 0 THEN "AttributeError" ELSE "",
          tools |-> {}]
    ELSE LET d == JsonDecodeString(f.tool_name.token) IN
         IF ~d.ok THEN [error |-> "JSONDecodeError", tools |-> {}]
         ELSE IF d.str = <<>> THEN [error |-> "", tools |-> {}]
         ELSE [error |-> "", tools |-> {Lower(d.str)}]

\* variant: except json.JSONDecodeError: pass
Suppressed_decode_only(error) == error = "JSONDecodeError"

\* except: pass
Suppressed(error) == TRUE

load_used_tools(h, dir) ==
    [raised |-> \E mf \in DOMAIN dir :
                    /\ ReadManifest(dir[mf]).error # ""
                    /\ ~Suppressed(ReadManifest(dir[mf]).error),
     value |-> HistoryUsed(h)
                 \cup UNION {ReadManifest(dir[mf]).tools : mf \in DOMAIN dir}]

----------------------------------------------------------------------------
(* Content generator.  A fixed phrase of a template is one element of the  *)
(* text; non-ASCII phrases are written in ASCII transliteration.           *)

local_generate(tool_name) ==
    [en_body |-> <<"Today's AI tool is ">> \o tool_name
                 \o <<". It trims dead footage, fixes lighting & color, ",
                      "and auto-generates captions. Steps: upload -> auto-edit -> download.">>,
     te_body |-> <<"[te] Ee roju AI tool ">> \o tool_name
                 \o <<"[te] . Idi dead footage teesi, light mariyu color sarichestundi, ",
                      "[te] captionlu automatic ga vestundi. Upload -> auto-edit -> download.">>,
     title_en |-> tool_name \o <<" [em dash] AI Auto Editor">>,
     title_te |-> tool_name \o <<" [em dash] [te] sheeghra AI auto editing tool">>,
     tags |-> << <<"AI tools">>, <<"video editing">>, <<"automation">>,
                 tool_name,
                 <<"content creator tools">>, <<"editing shortcuts">> >>,
     desc |-> tool_name
              \o <<" helps you edit videos instantly using AI.", "\n",
                   "Steps: upload [arrow] auto-edit [arrow] done.">>]

\* str.split("\n")
RECURSIVE Split(_, _, _)
Split(s, i, cur) ==
    IF i > Len(s) THEN <<cur>>
    ELSE IF s[i] = "\n" THEN <<cur>> \o Split(s, i + 1, <<>>)
    ELSE Split(s, i + 1, Append(cur, s[i]))

\* the "crude extraction" of build_manifest: two locals that nothing reads
\*     lines = res.split("\n"); t_en = lines[1].strip(); t_te = lines[0].strip()
crude_extraction(res) ==
    IF res.type # "str" THEN [error |-> "AttributeError", t_en |-> <<>>, t_te |-> <<>>]
    ELSE LET lines == Split(res.str, 1, <<>>) IN
         IF Len(lines) < 2 THEN [error |-> "IndexError", t_en |-> <<>>, t_te |-> <<>>]
         ELSE [error |-> "", t_en |-> Strip(lines[2]), t_te |-> Strip(lines[1])]

----------------------------------------------------------------------------
(* Manifest writer *)

Digit(n) == <<"0","1","2","3","4","5","6","7","8","9">>[n + 1]

\* datetime.utcnow().strftime(...): the clock at second precision
strftime(t) ==
    LET sec == t \div 2 IN <<Digit((sec \div 10) % 10), Digit(sec % 10)>>

\* datetime.utcnow().isoformat(): the fraction is omitted when it is zero
isoformat(t) ==
    strftime(t) \o (IF t % 2 = 0 THEN <<>> ELSE <<".", "5">>)

\* f"job_{...strftime(...)}_{uuid.uuid4().hex[:6]}"
JobId(t, hex) == <<"j","o","b","_">> \o strftime(t) \o <<"_">> \o SubSeq(hex, 1, 6)

\* str(MANIFESTS / f"{job_id}.json")
ManifestPath(job_id) == <<"manifests/">> \o job_id \o <<".json">>

\* the dict m of build_manifest
Manifest(job_id, tool_name, created, c) ==
    [job_id |-> job_id,
     tool_name |-> tool_name,
     created_at |-> isoformat(created) \o <<"Z">>,
     script |-> [lang_en |-> [body |-> c.en_body, title |-> c.title_en],
                 lang_te |-> [body |-> c.te_body, title |-> c.title_te]],
     tags |-> c.tags,
     description |-> c.desc,
     assets |-> [demo_audio_en |-> <<>>, demo_audio_te |-> <<>>,
                 demo_video |-> <<>>]]

\* out.write_text(...): the file is created, or replaced if it exists
write_text(dir, stem, content) ==
    [mf \in DOMAIN dir \cup {stem} |-> IF mf = stem THEN content ELSE dir[mf]]

\* variant: the header row is written by every run
AppendHistory_header_each(h, job_id, tool_name, out, stamp) ==
    File(h.text
         \o writerow(HEADER)
         \o writerow(<<job_id, tool_name, out, isoformat(stamp)>>))

\* first = not HISTORY.exists(); open(HISTORY, "a"): header if first, one row
AppendHistory(h, job_id, tool_name, out, stamp) ==
    File(h.text
         \o (IF ~h.exists THEN writerow(HEADER) ELSE <<>>)
         \o writerow(<<job_id, tool_name, out, isoformat(stamp)>>))

----------------------------------------------------------------------------
(* Inputs *)

ClipFix == fallback[1]
Empty == <<>>
PadClip == <<" ">> \o ClipFix                                 \* " ClipFix"
BrandNewTool == <<"B","r","a","n","d","N","e","w","T","o","o","l">>
Quoted == <<"N","o",",","\"","v","a">>                        \* No,"va
PadQuoted == <<" ">> \o Quoted                               \*  No,"va
NovaCut == <<"N","o","v","a","C","u","t">>

\* the value of GEMINI_API_KEY in the environment ("" when it is not set)
Envs == {<<>>, <<" ">>, <<"k","e","y">>}

SixLines == <<"t","e","\n","e","n","\n","T","1","\n","T","2","\n",
              "g","s","\n","d","e">>

RemoteOutcomes ==
    {Outcome(TRUE, 0, FALSE, FALSE, None),                    \* post() raises
     Outcome(FALSE, 500, TRUE, TRUE, PyStr(NovaCut)),         \* non-200
     Outcome(FALSE, 200, FALSE, FALSE, None),                 \* body is not JSON
     Outcome(FALSE, 200, TRUE, FALSE, None),                  \* path missing
     Outcome(FALSE, 200, TRUE, TRUE, None),                   \* text: null
     Outcome(FALSE, 200, TRUE, TRUE, PyInt(0)),
     Outcome(FALSE, 200, TRUE, TRUE, PyInt(7)),
     Outcome(FALSE, 200, TRUE, TRUE, PyStr(<<>>)),
     Outcome(FALSE, 200, TRUE, TRUE, PyStr(<<" ", "\n">>)),
     Outcome(FALSE, 200, TRUE, TRUE, PyStr(NovaCut)),
     Outcome(FALSE, 200, TRUE, TRUE, PyStr(<<" ">> \o ClipFix \o <<"\n">>)),
     Outcome(FALSE, 200, TRUE, TRUE, PyStr(SixLines))}

\* a history row as the script writes it, and a row of a foreign layout
Row(tool_name) == writerow(<<<<"j">>, tool_name, <<"p">>, <<"0","0">>>>)

RECURSIVE Rows(_)
Rows(names) == IF names = <<>> THEN <<>> ELSE Row(Head(names)) \o Rows(Tail(names))

\* a manifest as an earlier run left it
OldManifest(tool_name) == JsonFile(TRUE, "object", TRUE, JString(JsonString(tool_name)))

Stem(c) == <<"o","l","d","_",c>>

----------------------------------------------------------------------------
(* pick_new_tool as a function: every input of the bounded sets, then the  *)
(* call                                                                    *)

PickNames == {Empty, ClipFix, Lower(ClipFix), PadClip, BrandNewTool, fallback[8]}

FallbackLower == {Lower(fallback[i]) : i \in 1..Len(fallback)}

\* a used-set holds lower-case names: any of the candidates, and any of
\* these others
OtherUsed == {<<>>, Lower(PadClip), Lower(BrandNewTool)}

UsedSets == {F \cup X : F \in SUBSET FallbackLower, X \in SUBSET OtherUsed}

NoReturn == Return(<<>>, 0, 0)

PickInit ==
    /\ history = Absent
    /\ manifests = <<>>
    /\ now = 0
    /\ runs = <<>>
    /\ \E previous_tool \in PickNames, used_tools \in UsedSets, env \in Envs :
         \E outcome \in (IF GEMINI_API_KEY(env) = <<>> THEN {NoOutcome}
                         ELSE RemoteOutcomes) :
           call = [fn |-> "pick_new_tool", previous_tool |-> previous_tool,
                   used_tools |-> used_tools, env |-> env,
                   outcome |-> outcome, done |-> FALSE, ret |-> NoReturn]

PickNewTool ==
    /\ call.fn = "pick_new_tool"
    /\ ~call.done
    /\ call' = [call EXCEPT
                  !.done = TRUE,
                  !.ret = pick_new_tool(call.previous_tool, call.used_tools,
                                        GEMINI_API_KEY(call.env), call.outcome)]
    /\ UNCHANGED <<history, manifests, now, runs>>

PickNext == PickNewTool

SpecPick == PickInit /\ [][PickNext]_vars

Picked == call.fn = "pick_new_tool" /\ call.done

\* index of the earliest fallback candidate that is not used, 0 if none
FirstUnused(used_tools) ==
    LET free == {i \in 1..Len(fallback) : Lower(fallback[i]) \notin used_tools} IN
    IF free = {} THEN 0 ELSE CHOOSE i \in free : \A j \in free : i <= j

\* C1: a requested name whose lower-case form is not in the used-set is
\* returned exactly as given, whatever the remote configuration, and no
\* remote request is sent.
C1_PassThrough ==
    (Picked /\ Lower(call.previous_tool) \notin call.used_tools)
        => /\ ~call.ret.raised
           /\ call.ret.value = call.previous_tool
           /\ call.ret.posts = 0

C1_Witness ==
    /\ Picked
    /\ call.previous_tool = ClipFix
    /\ Lower(ClipFix) \notin call.used_tools
    /\ call.used_tools # {}
    /\ GEMINI_API_KEY(call.env) # <<>>
    /\ call.ret.value = ClipFix

\* C2: a used requested name with some fallback candidate unused yields the
\* earliest unused candidate of the list, in its original casing.
C2_FirstFallback ==
    (Picked /\ Lower(call.previous_tool) \in call.used_tools
            /\ FirstUnused(call.used_tools) # 0)
        => /\ ~call.ret.raised
           /\ call.ret.value = fallback[FirstUnused(call.used_tools)]

C2_Witness ==
    /\ Picked
    /\ call.previous_tool = ClipFix
    /\ Lower(ClipFix) \in call.used_tools
    /\ Lower(fallback[2]) \notin call.used_tools
    /\ Lower(fallback[5]) \notin call.used_tools
    /\ call.ret.value = fallback[2]

\* the remote step fails: exception, non-200 status, malformed JSON, path
\* missing, or an empty text
RemoteFails(o) ==
    \/ o.raises
    \/ o.status_code # 200
    \/ ~o.json_ok
    \/ ~o.has_path
    \/ o.text = PyStr(<<>>)

\* C3: with the requested name and all eight candidates used, the result is
\* requested + "_NEW" when no key is configured or the remote step fails, and
\* no exception escapes.
C3_TerminalFallback ==
    (Picked /\ Lower(call.previous_tool) \in call.used_tools
            /\ FallbackLower \subseteq call.used_tools
            /\ (GEMINI_API_KEY(call.env) = <<>> \/ RemoteFails(call.outcome)))
        => /\ ~call.ret.raised
           /\ call.ret.value = call.previous_tool \o SuffixNew

C3_Witness ==
    /\ Picked
    /\ call.previous_tool = ClipFix
    /\ FallbackLower \subseteq call.used_tools
    /\ GEMINI_API_KEY(call.env) # <<>>
    /\ call.outcome.status_code = 500
    /\ call.ret.value = ClipFix \o SuffixNew

\* C10: for a non-empty requested name the name returned is never empty,
\* whatever the used-set and the remote outcome.
C10_NeverEmpty ==
    (Picked /\ call.previous_tool # <<>> /\ ~call.ret.raised)
        => call.ret.value # <<>>

----------------------------------------------------------------------------
(* load_used_tools as a function: every history log and manifest directory *)
(* of the bounded sets, then the call                                      *)

MaxRows == 2      \* data rows of a history log drawn by LoadInit
MaxFiles == 2     \* manifest files of a directory drawn by LoadInit

RowNames == {Empty, <<" ">>, ClipFix, PadClip, Quoted}

RECURSIVE NameSeqs(_)
NameSeqs(n) ==
    IF n = 0 THEN {<<>>}
    ELSE NameSeqs(n - 1)
           \cup {Append(q, x) : q \in {r \in NameSeqs(n - 1) : Len(r) = n - 1},
                                x \in RowNames}

\* the log is absent, or it starts with the script's header, with no header
\* or with a one-column header, followed by rows as the script writes them
LoadHistories ==
    {Absent}
      \cup {File(head \o Rows(names)) :
              head \in {<<>>, writerow(HEADER), writerow(<<TOOL_NAME>>)},
              names \in NameSeqs(MaxRows)}

\* the files a directory may hold, by the last character of the file stem
LoadFiles ==
    [c \in {"1", "2", "3", "4", "5", "6", "7", "8", "9"} |->
        CASE c = "1" -> JsonFile(FALSE, "object", FALSE, JNull)   \* not JSON
          [] c = "2" -> JsonFile(TRUE, "array", FALSE, JNull)     \* a list
          [] c = "3" -> JsonFile(TRUE, "object", FALSE, JNull)    \* no member
          [] c = "4" -> JsonFile(TRUE, "object", TRUE, JNull)
          [] c = "5" -> JsonFile(TRUE, "object", TRUE, JNumber(7))
          [] c = "6" -> OldManifest(Empty)
          [] c = "7" -> OldManifest(NovaCut)
          [] c = "8" -> OldManifest(PadClip)
          [] c = "9" -> OldManifest(Quoted)]

LoadDirs ==
    {[mf \in {Stem(c) : c \in S} |-> LoadFiles[mf[5]]] :
        S \in {T \in SUBSET DOMAIN LoadFiles : Cardinality(T) <= MaxFiles}}

LoadInit ==
    /\ history \in LoadHistories
    /\ manifests \in LoadDirs
    /\ now = 0
    /\ runs = <<>>
    /\ call = [fn |-> "load_used_tools", done |-> FALSE,
               ret |-> [raised |-> FALSE, value |-> {}]]

LoadUsedTools ==
    /\ call.fn = "load_used_tools"
    /\ ~call.done
    /\ call' = [call EXCEPT !.done = TRUE,
                            !.ret = load_used_tools(history, manifests)]
    /\ UNCHANGED <<history, manifests, now, runs>>

LoadNext == LoadUsedTools

SpecLoad == LoadInit /\ [][LoadNext]_vars

Loaded == call.fn = "load_used_tools" /\ call.done

\* the non-empty tool-name fields of the data rows of the history log
HistoryNames ==
    IF ~history.exists \/ CsvRows(history.text) = <<>> THEN {}
    ELSE LET rows == CsvRows(history.text) IN
         {DictGet(rows[1], rows[i], TOOL_NAME).str : i \in 2..Len(rows)} \ {<<>>}

\* the non-empty string tool names of the manifest files that parse to a
\* record
ManifestNames ==
    {JsonDecodeString(manifests[mf].tool_name.token).str :
        mf \in {x \in DOMAIN manifests :
                  /\ manifests[x].syntax_ok
                  /\ manifests[x].top = "object"
                  /\ manifests[x].has_tool_name
                  /\ manifests[x].tool_name.type = "string"
                  /\ JsonDecodeString(manifests[x].tool_name.token).ok}} \ {<<>>}

\* C9 as stated: the loader never raises and returns exactly the lower-case
\* forms of the non-empty history names and of the manifest names.
C9_ExactUnion ==
    Loaded => /\ ~call.ret.raised
              /\ call.ret.value = {Lower(n) : n \in HistoryNames \cup ManifestNames}

\* C9 amended: the names of the history log are trimmed of surrounding
\* whitespace before they are lower-cased; the manifest names are not.
C9_TrimmedUnion ==
    Loaded => /\ ~call.ret.raised
              /\ call.ret.value = {Lower(Strip(n)) : n \in HistoryNames}
                                    \cup {Lower(n) : n \in ManifestNames}

C9_Witness ==
    /\ Loaded
    /\ \E mf \in DOMAIN manifests : ~manifests[mf].syntax_ok
    /\ PadClip \in HistoryNames
    /\ call.ret.value = {Lower(ClipFix), Lower(NovaCut)}

----------------------------------------------------------------------------
(* The script, run after run *)

RunNames == {Empty, PadQuoted}

RunEnvs == {<<>>, <<"k","e","y">>}

\* outcomes of the content prompt's request, and of the selector's
RunOutcomes ==
    {Outcome(TRUE, 0, FALSE, FALSE, None),
     Outcome(FALSE, 200, TRUE, TRUE, PyStr(SixLines))}

SelectorOutcomes ==
    RunOutcomes \cup {Outcome(FALSE, 200, TRUE, TRUE, PyInt(7)),
                      Outcome(FALSE, 200, TRUE, TRUE, PyStr(<<" ", "\n">>))}

\* uuid.uuid4().hex, shortened; two of them agree on the first six digits
Uuids == {<<"a","1","b","2","c","3","d","4">>,
          <<"a","1","b","2","c","3","f","f">>,
          <<"0","f","0","f","0","f","0","0">>}

AllFallbackUsed == File(writerow(HEADER) \o Rows(fallback))

\* a directory with a file that is not JSON and a manifest of " ClipFix"
OldDir == [mf \in {Stem("1"), Stem("8")} |-> LoadFiles[mf[5]]]

\* the files before the first run: <<history log, manifest directory>>
InitFiles == {<<Absent, <<>>>>, <<Absent, OldDir>>, <<File(<<>>), OldDir>>,
              <<AllFallbackUsed, <<>>>>}

NoCall == [fn |-> "none"]

Init ==
    /\ \E f \in InitFiles : history = f[1] /\ manifests = f[2]
    /\ now = 1
    /\ runs = <<>>
    /\ call = NoCall

\* what one invocation did: its arguments and environment, the used-set it
\* loaded, the selector's result, the remote answer to the content prompt,
\* the requests sent, and what it wrote and printed
RunRecord(args, env, used, pick, res, posts, job_id, exit_code, stdout) ==
    [args |-> args, env |-> env, used |-> used, pick |-> pick, res |-> res,
     posts |-> posts, job_id |-> job_id, exit_code |-> exit_code,
     stdout |-> stdout]

\* time passes between and during the runs
Tick ==
    /\ now < MaxTime
    /\ now' = now + 1
    /\ UNCHANGED <<history, manifests, runs, call>>

\* __main__ with no argument: usage message, exit code 1
Usage ==
    /\ Len(runs) < MaxRuns
    /\ runs' = Append(runs,
                 RunRecord(<<>>, <<>>, {}, NoReturn, None, 0, <<>>, 1,
                           <<"Usage: python script_gen.py <TOOL_NAME>">>))
    /\ UNCHANGED <<history, manifests, now, call>>

\* the outcomes to draw for a request: none where no request is sent
Drawn(sent, outcomes) == IF sent THEN outcomes ELSE {NoOutcome}

\* the later readings of the clock in a run that starts at t: a run is
\* shorter than a tick, so the clock ticks at most once while it runs
Later(t) == {u \in {t, t + 1} : u <= MaxTime}

\* __main__ with an argument: build_manifest(sys.argv[1]).  The inputs are the
\* argument, the environment, the outcomes o1 and o2 of the selector's and of
\* the content prompt's request, the uuid, and the second and third reading
\* of the clock (created, stamp).
BuildManifest ==
    /\ Len(runs) < MaxRuns
    /\ \E used \in {load_used_tools(history, manifests)} :
       \E tool \in RunNames, env \in RunEnvs :
       \E key \in {GEMINI_API_KEY(env)} :
       \E o1 \in Drawn(pick_new_tool(tool, used.value, key, NoOutcome).posts # 0,
                       SelectorOutcomes) :
       \E pick \in {pick_new_tool(tool, used.value, key, o1)} :
         IF used.raised \/ pick.raised
         THEN \* the exception ends the process before anything is written
              /\ runs' = Append(runs,
                           RunRecord(<<tool>>, env, used.value, pick, None,
                                     pick.posts, <<>>, 1, <<>>))
              /\ UNCHANGED <<history, manifests, now>>
         ELSE \E o2 \in Drawn(key # <<>>, RunOutcomes), hex \in Uuids, created \in Later(now) :
              \E stamp \in {u \in Later(now) : u >= created} :
              LET tool_name == pick.value
                  res == gemini_generate(key, o2)
                  c == local_generate(tool_name)
                  job_id == JobId(now, hex)
                  m == Manifest(job_id, tool_name, created, c)
                  out == ManifestPath(job_id)
              IN
              /\ manifests' = write_text(manifests, job_id, json_dumps(m))
              /\ history' = AppendHistory(history, job_id, tool_name, out, stamp)
              /\ now' = stamp
              /\ runs' = Append(runs,
                           RunRecord(<<tool>>, env, used.value, pick, res,
                                     pick.posts + gemini_posts(key), job_id, 0,
                                     <<"WROTE", " ">> \o out))
    /\ UNCHANGED call

Next ==
    \/ Tick
    \/ Usage
    \/ BuildManifest

Spec == Init /\ [][Next]_vars

\* the same runs from a fresh working directory: no history log yet
FreshInit ==
    /\ history = Absent
    /\ manifests = <<>>
    /\ now = 1
    /\ runs = <<>>
    /\ call = NoCall

SpecFresh == FreshInit /\ [][Next]_vars

----------------------------------------------------------------------------
(* Claims about the runs *)

Wrote(i) == runs[i].exit_code = 0
KeylessRuns == \A k \in 1..Len(runs) : GEMINI_API_KEY(runs[k].env) = <<>>

\* C4 as stated: with no key configured, a run that did not take the terminal
\* fallback never writes a tool name equal (ignoring case) to a name of its
\* used-set or to the name written by an earlier run.
C4_NoRepeat ==
    KeylessRuns =>
      \A j \in 1..Len(runs) :
        (Wrote(j) /\ runs[j].pick.step # 4) =>
          /\ Lower(runs[j].pick.value) \notin runs[j].used
          /\ \A i \in 1..(j - 1) :
               Wrote(i) => Lower(runs[i].pick.value) # Lower(runs[j].pick.value)

\* the manifest file of run i still holds what run i wrote
StillPresent(i) ==
    /\ Wrote(i)
    /\ runs[i].job_id \in DOMAIN manifests
    /\ manifests[runs[i].job_id].tool_name
         = JString(JsonString(runs[i].pick.value))

\* the loader returned used: it holds the name, and the selector would not
\* pass the name through
TreatedAsUsed(name, used) ==
    /\ ~used.raised
    /\ Lower(name) \in used.value
    /\ pick_new_tool(name, used.value, <<>>, NoOutcome).step # 1

SixFields(res) ==
    /\ res.type = "str"
    /\ Len(Split(res.str, 1, <<>>)) = 6
    /\ \A k \in 1..6 : Strip(Split(res.str, 1, <<>>)[k]) # <<>>

\* C6: when the remote answer parses into all six fields, the manifest of the
\* run carries the remote content.
C6_RemoteAuthoritative ==
    \A i \in 1..Len(runs) :
      (StillPresent(i) /\ GEMINI_API_KEY(runs[i].env) # <<>>
                       /\ SixFields(runs[i].res))
        => LET f == manifests[runs[i].job_id]
               lines == Split(runs[i].res.str, 1, <<>>)
           IN /\ f.script.lang_te.body = JsonString(Strip(lines[1]))
              /\ f.script.lang_en.body = JsonString(Strip(lines[2]))
              /\ f.script.lang_en.title = JsonString(Strip(lines[3]))
              /\ f.script.lang_te.title = JsonString(Strip(lines[4]))
              /\ f.description = JsonString(Strip(lines[6]))

IsJobFile(mf) == Len(mf) >= 4 /\ SubSeq(mf, 1, 4) = <<"j","o","b","_">>

\* C7: no two runs produce the same job_id, and the manifest files of the
\* runs are as many as the runs that wrote one.
C7_UniqueJobId ==
    /\ \A i, j \in 1..Len(runs) :
         (Wrote(i) /\ Wrote(j) /\ i # j) => runs[i].job_id # runs[j].job_id
    /\ Cardinality({mf \in DOMAIN manifests : IsJobFile(mf)})
         = Cardinality({i \in 1..Len(runs) : Wrote(i)})

\* the indices of the runs that wrote, in run order
RECURSIVE Writers(_)
Writers(n) ==
    IF n = 0 THEN <<>>
    ELSE IF Wrote(n) THEN Append(Writers(n - 1), n) ELSE Writers(n - 1)

\* C8: from an absent log, the log is the header row followed by one row per
\* run that wrote, in run order, each with the job_id, the tool name and the
\* manifest path of that run; until a run writes, there is no log.
C8_AppendOnly ==
    LET w == Writers(Len(runs)) IN
    IF w = <<>> THEN history = Absent
    ELSE /\ history.exists
         /\ LET rows == CsvRows(history.text) IN
            /\ Len(rows) = Len(w) + 1
            /\ rows[1] = HEADER
            /\ \A k \in 1..Len(w) :
                 /\ Len(rows[k + 1]) = 4
                 /\ rows[k + 1][1] = runs[w[k]].job_id
                 /\ rows[k + 1][2] = runs[w[k]].pick.value
                 /\ rows[k + 1][3] = ManifestPath(runs[w[k]].job_id)

C8_Witness ==
    /\ Len(runs) >= 2
    /\ Wrote(1) /\ Wrote(2)
    /\ runs[1].pick.value = PadQuoted
    /\ runs[1].job_id = runs[2].job_id
    /\ Len(CsvRows(history.text)) = 3

====
